---- MODULE Spec2Model ----
(***************************************************************************)
(* Model of src/server.js: an Express server keeping push subscriptions in *)
(* the in-memory array `subscriptions`, with two handlers:                 *)
(*   POST /subscribe               (synchronous, lines 41-55)              *)
(*   POST /send-test-notification  (async, lines 60-103)                   *)
(* Node runs one callback at a time.  The subscribe handler is one atomic  *)
(* step.  The broadcast handler runs atomically up to                      *)
(* `await Promise.allSettled(sendPromises)` (line 94); each delivery then  *)
(* settles in a callback of its own, and the code after the await runs in  *)
(* the microtasks of the callback that settles the last delivery.  Other   *)
(* requests can be handled while a broadcast is suspended at line 94.      *)
(***************************************************************************)
EXTENDS Integers, Sequences, FiniteSets, TLC

\* ---------------------------------------------------------------- bounds
\* Largest registry a subscribe may still grow.
MaxSubs == 2
\* Number of broadcast requests that can be in flight at the same time.
MaxReq == 2
\* Number of delivery attempts that can be outstanding at the same time.
MaxInFlight == 2
\* The same, in the traced specification.
MaxInFlightTraced == 3

Slots == 1..MaxReq

\* ------------------------------------------------------- request bodies
\* A parsed request body: endpoint, key material, and the order in which
\* the two properties were supplied ("ek": endpoint first, "ke": keys first).
Rec(e, k, l) == [endpoint |-> e, keys |-> k, layout |-> l]

\* The request bodies the clients send: one subscription, the same content
\* with the properties in the other order, a key rotation of it, and a
\* subscription of another endpoint.
Records ==
    { Rec("a", "k1", "ek"), Rec("a", "k1", "ke"),
      Rec("a", "k2", "ek"), Rec("b", "k1", "ek") }

StringifyEndpointOnly(r) == <<"endpoint", r.endpoint>>

\* JSON.stringify(sub): the properties are written in insertion order.
Stringify(r) ==
    IF r.layout = "ek"
    THEN <<"endpoint", r.endpoint, "keys", r.keys>>
    ELSE <<"keys", r.keys, "endpoint", r.endpoint>>

\* ----------------------------------------------------- delivery outcomes
\* What webpush.sendNotification does for one subscription: it resolves,
\* or it rejects with an error carrying a statusCode, or with an error
\* without one (hasStatus = FALSE: network failure, malformed keys).
Deliveries ==
    { [ok |-> TRUE, hasStatus |-> FALSE, statusCode |-> 0] }
    \cup { [ok |-> FALSE, hasStatus |-> TRUE, statusCode |-> c] : c \in {410, 404, 500} }
    \cup { [ok |-> FALSE, hasStatus |-> FALSE, statusCode |-> 0] }

\* An entry of sendPromises that has not settled yet.
Pending == [state |-> "pending", status |-> "none", error |-> 0]

\* The value one sendPromises entry settles to (lines 77-91): the async
\* mapper catches every error, so the promise is always fulfilled.
\* error is the status code, or 0 for error.message / no error.
SendResult(d) ==
    IF d.ok
    THEN [state |-> "fulfilled", status |-> "success", error |-> 0]
    ELSE IF d.hasStatus /\ (d.statusCode = 410 \/ d.statusCode = 404)
         THEN [state |-> "fulfilled", status |-> "failed", error |-> d.statusCode]
         ELSE [state |-> "fulfilled", status |-> "failed",
               error |-> IF d.hasStatus THEN d.statusCode ELSE 0]

SendAllButLast(subs) == [i \in 1..Len(subs) - 1 |-> subs[i]]

\* The calls of webpush.sendNotification made by subscriptions.map
\* (lines 76-78): one per element, in order.
SendAll(subs) == [i \in 1..Len(subs) |-> subs[i]]

KeepFulfilled(res) == res.state = "fulfilled"

KeepFailed(res) == res.state = "fulfilled" /\ res.status = "failed"

\* The filter callback of lines 97-98 on one element of results.
Keep(res) == res.state = "fulfilled" /\ res.status # "failed"

AllSettledOrFailed(res) ==
    \/ \A i \in 1..Len(res) : res[i].state # "pending"
    \/ \E i \in 1..Len(res) : res[i].status = "failed"

\* Promise.allSettled resolves when no entry is pending (line 94).
AllSettled(res) == \A i \in 1..Len(res) : res[i].state # "pending"

RECURSIVE FilterFromReversed(_, _, _)
FilterFromReversed(subs, res, i) ==
    IF i > Len(subs) THEN <<>>
    ELSE FilterFromReversed(subs, res, i + 1) \o (IF Keep(res[i]) THEN <<subs[i]>> ELSE <<>>)

\* subscriptions.filter((sub, index) => ...) of lines 97-99: the element at
\* position index is kept when the result at the same position passes.
RECURSIVE FilterFrom(_, _, _)
FilterFrom(subs, res, i) ==
    IF i > Len(subs) THEN <<>>
    ELSE (IF Keep(res[i]) THEN <<subs[i]>> ELSE <<>>) \o FilterFrom(subs, res, i + 1)

FilterByIndex(subs, res) == FilterFrom(subs, res, 1)

\* The 200 response of line 102, sent after the assignment of line 97:
\* subs is the registry at that point, res the settled results.
BroadcastResponseAttempted(subs, res) ==
    [code |-> 200, remainingSubscriptions |-> Len(res)]

BroadcastResponse(subs, res) ==
    [code |-> 200, remainingSubscriptions |-> Len(subs)]

\* results[index] is undefined for index >= results.length, and reading
\* .status of it throws a TypeError (line 98).
FilterThrows(subs, res) == Len(subs) > Len(res)

\* ----------------------------------------------------------------- state
VARIABLES
    subscriptions,  \* the registry array (line 37)
    subResp,        \* the response of the last /subscribe request
    pc,             \* per broadcast request: idle, waiting, done, threw
    snapshot,       \* per broadcast: the registry it read on entry
    sent,           \* per broadcast: the sendNotification calls it made
    results,        \* per broadcast: the settled state of sendPromises
    resp,           \* per broadcast: the response sent
    clean,          \* per broadcast: no other request ran during it
    failedTo        \* history: the records a delivery attempt to which failed

vars == <<subscriptions, subResp, pc, snapshot, sent, results, resp, clean,
          failedTo>>

NoResp == [code |-> 0, remainingSubscriptions |-> 0]
NoSubResp == [code |-> 0, rec |-> Rec("", "", "")]

Init ==
    /\ subscriptions = <<>>
    /\ subResp = NoSubResp
    /\ pc = [b \in Slots |-> "idle"]
    /\ snapshot = [b \in Slots |-> <<>>]
    /\ sent = [b \in Slots |-> <<>>]
    /\ results = [b \in Slots |-> <<>>]
    /\ resp = [b \in Slots |-> NoResp]
    /\ clean = [b \in Slots |-> TRUE]
    /\ failedTo = {}

\* No response is waiting to be handed over: every handler that ran has
\* returned.  Handlers start only then, so that each response is seen in
\* the state in which it was sent.
Quiet ==
    /\ subResp = NoSubResp
    /\ \A b \in Slots : pc[b] \in {"idle", "waiting"}

\* The number of entries of res that have not settled.
RECURSIVE PendingIn(_)
PendingIn(res) ==
    IF res = <<>> THEN 0
    ELSE (IF Head(res).state = "pending" THEN 1 ELSE 0) + PendingIn(Tail(res))

\* The number of delivery attempts outstanding in slots 1..b.
RECURSIVE InFlight(_)
InFlight(b) ==
    IF b = 0 THEN 0
    ELSE (IF pc[b] = "waiting" THEN PendingIn(results[b]) ELSE 0) + InFlight(b - 1)

\* A request handled while broadcast b is suspended makes b not clean.
Disturb(self) ==
    [b \in Slots |-> IF b # self /\ pc[b] = "waiting" THEN FALSE ELSE clean[b]]

\* sub === subscription: a parsed body is never the same object as a stored one.
IsDuplicateByReference(subs, r) ==
    \E i \in 1..Len(subs) : FALSE

\* subscriptions.some(sub => JSON.stringify(sub) === JSON.stringify(subscription))
IsDuplicate(subs, r) ==
    \E i \in 1..Len(subs) : Stringify(subs[i]) = Stringify(r)

\* POST /subscribe (lines 41-55).
Subscribe(r) ==
    /\ Quiet
    /\ IsDuplicate(subscriptions, r) \/ Len(subscriptions) < MaxSubs
    /\ IF ~IsDuplicate(subscriptions, r)
       THEN /\ subscriptions' = Append(subscriptions, r)
            /\ subResp' = [code |-> 201, rec |-> r]
       ELSE /\ subscriptions' = subscriptions
            /\ subResp' = [code |-> 200, rec |-> r]
    /\ clean' = Disturb(0)
    /\ UNCHANGED <<pc, snapshot, sent, results, resp, failedTo>>

BroadcastStartNoEmptyCheck(b) ==
    /\ Quiet
    /\ pc[b] = "idle"
    /\ \A c \in Slots : c < b => pc[c] = "waiting"
    /\ InFlight(MaxReq) + Len(subscriptions) <= MaxInFlight
    /\ snapshot' = [snapshot EXCEPT ![b] = subscriptions]
    /\ pc' = [pc EXCEPT ![b] = IF Len(subscriptions) = 0 THEN "done" ELSE "waiting"]
    /\ resp' = [resp EXCEPT ![b] =
          IF Len(subscriptions) = 0 THEN BroadcastResponse(subscriptions, <<>>)
          ELSE NoResp]
    /\ sent' = [sent EXCEPT ![b] = SendAll(subscriptions)]
    /\ results' = [results EXCEPT ![b] =
                      [i \in 1..Len(SendAll(subscriptions)) |-> Pending]]
    /\ clean' = [Disturb(b) EXCEPT ![b] = \A c \in Slots : c # b => pc[c] # "waiting"]
    /\ UNCHANGED <<subscriptions, subResp, failedTo>>

\* POST /send-test-notification up to the await of line 94 (lines 60-94).
\* A slot is taken only when all lower slots are suspended, and when the
\* deliveries outstanding stay within limit.
BroadcastStartWithin(b, limit) ==
    /\ Quiet
    /\ pc[b] = "idle"
    /\ \A c \in Slots : c < b => pc[c] = "waiting"
    /\ InFlight(MaxReq) + Len(subscriptions) <= limit
    /\ snapshot' = [snapshot EXCEPT ![b] = subscriptions]
    /\ IF Len(subscriptions) = 0
       THEN /\ pc' = [pc EXCEPT ![b] = "done"]
            /\ resp' = [resp EXCEPT ![b] = [code |-> 404, remainingSubscriptions |-> 0]]
            /\ sent' = [sent EXCEPT ![b] = <<>>]
            /\ results' = [results EXCEPT ![b] = <<>>]
       ELSE /\ pc' = [pc EXCEPT ![b] = "waiting"]
            /\ resp' = [resp EXCEPT ![b] = NoResp]
            /\ sent' = [sent EXCEPT ![b] = SendAll(subscriptions)]
            /\ results' = [results EXCEPT ![b] =
                              [i \in 1..Len(SendAll(subscriptions)) |-> Pending]]
    /\ clean' = [Disturb(b) EXCEPT ![b] = \A c \in Slots : c # b => pc[c] # "waiting"]
    /\ UNCHANGED <<subscriptions, subResp, failedTo>>

BroadcastStart(b) == BroadcastStartWithin(b, MaxInFlight)

\* Pruning in the catch block instead of after the await.
SettleIncremental(b, i, d) ==
    /\ Quiet
    /\ pc[b] = "waiting"
    /\ i \in 1..Len(results[b])
    /\ results[b][i].state = "pending"
    /\ LET res == [results[b] EXCEPT ![i] = SendResult(d)]
           subs == IF d.ok THEN subscriptions
                   ELSE SelectSeq(subscriptions, LAMBDA x : x # sent[b][i])
       IN
       /\ results' = [results EXCEPT ![b] = res]
       /\ subscriptions' = subs
       /\ IF ~AllSettled(res)
          THEN UNCHANGED <<pc, resp, clean>>
          ELSE /\ pc' = [pc EXCEPT ![b] = "done"]
               /\ resp' = [resp EXCEPT ![b] = BroadcastResponse(subs, res)]
               /\ clean' = Disturb(b)
    /\ UNCHANGED <<subResp, snapshot, sent, failedTo>>

\* One delivery of broadcast b settles (lines 78-91); when it is the last,
\* the handler resumes after the await and runs lines 97-102.
SettleDelivery(b, i, d) ==
    /\ Quiet
    /\ pc[b] = "waiting"
    /\ i \in 1..Len(results[b])
    /\ results[b][i].state = "pending"
    /\ LET res == [results[b] EXCEPT ![i] = SendResult(d)] IN
       /\ results' = [results EXCEPT ![b] = res]
       /\ IF ~AllSettled(res)
          THEN UNCHANGED <<subscriptions, pc, resp, clean>>
          ELSE IF FilterThrows(subscriptions, res)
               THEN /\ pc' = [pc EXCEPT ![b] = "threw"]
                    /\ clean' = Disturb(b)
                    /\ UNCHANGED <<subscriptions, resp>>
               ELSE /\ subscriptions' = FilterByIndex(subscriptions, res)
                    /\ pc' = [pc EXCEPT ![b] = "done"]
                    /\ resp' = [resp EXCEPT ![b] =
                          BroadcastResponse(FilterByIndex(subscriptions, res), res)]
                    /\ clean' = Disturb(b)
    /\ UNCHANGED <<subResp, snapshot, sent>>

\* The same, the failed attempts not recorded.
Settle(b, i, d) == SettleDelivery(b, i, d) /\ UNCHANGED failedTo

\* The handler that just responded (or threw) returns: its response has
\* gone out and its locals are dropped (lines 55 and 103).
EndRequest ==
    /\ ~Quiet
    /\ subResp' = NoSubResp
    /\ pc' = [b \in Slots |-> IF pc[b] = "waiting" THEN "waiting" ELSE "idle"]
    /\ snapshot' = [b \in Slots |-> IF pc[b] = "waiting" THEN snapshot[b] ELSE <<>>]
    /\ sent' = [b \in Slots |-> IF pc[b] = "waiting" THEN sent[b] ELSE <<>>]
    /\ results' = [b \in Slots |-> IF pc[b] = "waiting" THEN results[b] ELSE <<>>]
    /\ resp' = [b \in Slots |-> IF pc[b] = "waiting" THEN resp[b] ELSE NoResp]
    /\ clean' = [b \in Slots |-> IF pc[b] = "waiting" THEN clean[b] ELSE TRUE]
    /\ UNCHANGED <<subscriptions, failedTo>>

Next ==
    \/ \E r \in Records : Subscribe(r)
    \/ \E b \in Slots : BroadcastStart(b)
    \/ \E b \in Slots, i \in 1..MaxSubs + 1, d \in Deliveries : Settle(b, i, d)
    \/ EndRequest

Spec == Init /\ [][Next]_vars

\* The traced specification: the same handlers, with up to
\* MaxInFlightTraced deliveries outstanding, and with the failed delivery
\* attempts of lines 80-90 recorded in failedTo.
BroadcastStartTraced(b) == BroadcastStartWithin(b, MaxInFlightTraced)

SettleTraced(b, i, d) ==
    /\ SettleDelivery(b, i, d)
    /\ failedTo' = IF d.ok THEN failedTo ELSE failedTo \cup {sent[b][i]}

NextTraced ==
    \/ \E r \in Records : Subscribe(r)
    \/ \E b \in Slots : BroadcastStartTraced(b)
    \/ \E b \in Slots, i \in 1..MaxSubs + 1, d \in Deliveries : SettleTraced(b, i, d)
    \/ EndRequest

SpecTraced == Init /\ [][NextTraced]_vars

\* ------------------------------------------------------------ properties
InRegistry(r, subs) == \E j \in 1..Len(subs) : subs[j] = r

\* Broadcast b has answered 200 and no other request ran during it.
CleanDone(b) == pc[b] = "done" /\ resp[b].code = 200 /\ clean[b]

Prunable(res) == res.status = "failed" /\ res.error \in {410, 404}

\* C1: the registry never holds two identical records (same endpoint, same
\* keys, same layout), whatever requests were handled and interleaved.
NoDuplicateStorage ==
    \A i, j \in 1..Len(subscriptions) :
        i # j => subscriptions[i] # subscriptions[j]

\* A record was subscribed again during a suspended broadcast and is stored once.
NoDuplicateStorageWitness ==
    /\ subResp.code = 200
    /\ Cardinality({i \in 1..Len(subscriptions) : subscriptions[i] = subResp.rec}) = 1
    /\ \E b \in Slots : pc[b] = "waiting"

\* C2: when a broadcast that no other request interleaved responds, no
\* record of its snapshot whose attempt failed with 410 or 404 is in the
\* registry.
PruneOnGone ==
    \A b \in Slots : CleanDone(b) =>
        \A i \in 1..Len(snapshot[b]) :
            Prunable(results[b][i]) => ~InRegistry(snapshot[b][i], subscriptions)

PruneOnGoneWitness ==
    \E b \in Slots : CleanDone(b) /\
        /\ \E i \in 1..Len(snapshot[b]) :
              results[b][i].error = 410 /\ ~InRegistry(snapshot[b][i], subscriptions)
        /\ \E i \in 1..Len(snapshot[b]) :
              results[b][i].error = 404 /\ ~InRegistry(snapshot[b][i], subscriptions)

\* C3: when a broadcast that no other request interleaved responds, every
\* record of its snapshot whose attempt failed with another status code
\* than 410/404, or with an error without status code, is still in the
\* registry.
RetainOnTransientFailure ==
    \A b \in Slots : CleanDone(b) =>
        \A i \in 1..Len(snapshot[b]) :
            (results[b][i].status = "failed" /\ ~Prunable(results[b][i]))
                => InRegistry(snapshot[b][i], subscriptions)

\* C4: when a broadcast that no other request interleaved responds, every
\* record of its snapshot whose attempt succeeded is still in the registry.
DeliveredKept ==
    \A b \in Slots : CleanDone(b) =>
        \A i \in 1..Len(snapshot[b]) :
            results[b][i].status = "success" => InRegistry(snapshot[b][i], subscriptions)

DeliveredKeptWitness ==
    \E b \in Slots : CleanDone(b) /\
        /\ \E i \in 1..Len(snapshot[b]) :
              results[b][i].status = "success" /\ InRegistry(snapshot[b][i], subscriptions)
        /\ \E i \in 1..Len(snapshot[b]) : results[b][i].status = "failed"

\* C5: a subscribe answers 201 exactly when no identical record was in
\* the registry when it was called, and then appends the record; it
\* answers 200 exactly when an identical record was there, and then leaves
\* the registry as it was; the record is in the registry afterwards.
SubscribeResponseMatches ==
    [][subResp' # NoSubResp =>
          /\ subResp'.code \in {200, 201}
          /\ subResp'.code = 201 <=> ~InRegistry(subResp'.rec, subscriptions)
          /\ subResp'.code = 200 <=> InRegistry(subResp'.rec, subscriptions)
          /\ subResp'.code = 201 => subscriptions' = Append(subscriptions, subResp'.rec)
          /\ subResp'.code = 200 => subscriptions' = subscriptions
          /\ InRegistry(subResp'.rec, subscriptions')]_vars

\* A record was subscribed while another record of the same endpoint and
\* another one of the same content were stored, and one was answered 200.
SubscribeResponseMatchesWitness ==
    /\ subResp.code = 200
    /\ InRegistry(subResp.rec, subscriptions)
    /\ Len(subscriptions) >= 2

\* C6: a broadcast request handled when the registry is empty answers 404,
\* makes no delivery attempt and leaves the registry empty.
EmptyBroadcast ==
    [][\A b \in Slots :
          (pc[b] = "idle" /\ pc'[b] # "idle" /\ subscriptions = <<>>) =>
              /\ pc'[b] = "done"
              /\ resp'[b].code = 404
              /\ sent'[b] = <<>>
              /\ results'[b] = <<>>
              /\ subscriptions' = <<>>]_vars

EmptyBroadcastWitness ==
    \E b \in Slots :
        /\ pc[b] = "done" /\ resp[b].code = 404
        /\ sent[b] = <<>> /\ subscriptions = <<>>

\* C7: a broadcast makes exactly one delivery attempt to each record of
\* its snapshot, in every state from its start to its end, whatever has
\* settled so far and however.
OneAttemptEach ==
    \A b \in Slots : pc[b] # "idle" =>
        /\ Len(sent[b]) = Len(snapshot[b])
        /\ \A i \in 1..Len(snapshot[b]) : sent[b][i] = snapshot[b][i]
        /\ Len(results[b]) = Len(snapshot[b])

\* The second attempt failed while the first was still in flight.
OneAttemptEachWitness ==
    \E b \in Slots :
        /\ pc[b] = "waiting" /\ Len(snapshot[b]) >= 2
        /\ results[b][1].state = "pending"
        /\ results[b][2].status = "failed"
        /\ sent[b] = snapshot[b]

\* C8: a broadcast has sent no response as long as one of its delivery
\* attempts has not settled, also when another attempt has failed.
FanInBarrier ==
    \A b \in Slots :
        /\ pc[b] = "waiting" => resp[b] = NoResp
        /\ (\E i \in 1..Len(results[b]) : results[b][i].state = "pending")
              => resp[b] = NoResp /\ pc[b] = "waiting"
        /\ resp[b].code = 200 => Len(results[b]) = Len(snapshot[b])

FanInBarrierWitness ==
    \E b \in Slots :
        /\ resp[b].code = 200 /\ Len(results[b]) >= 2
        /\ results[b][1].status = "failed"
        /\ results[b][2].status = "success"

\* The number of records of the snapshot of b that are not in the registry.
PrunedBy(b) ==
    Cardinality({i \in 1..Len(snapshot[b]) : ~InRegistry(snapshot[b][i], subscriptions)})

\* C9: when a broadcast answers 200, remainingSubscriptions is the length
\* of the registry at that moment; with no other request interleaved it is
\* the snapshot size minus the number of snapshot records removed, and 0
\* for a single subscription failing with 404.
ReportedRemainder ==
    \A b \in Slots : (pc[b] = "done" /\ resp[b].code = 200) =>
        /\ resp[b].remainingSubscriptions = Len(subscriptions)
        /\ clean[b] =>
              resp[b].remainingSubscriptions = Len(snapshot[b]) - PrunedBy(b)
        /\ (clean[b] /\ Len(snapshot[b]) = 1 /\ results[b][1].error = 404) =>
              resp[b].remainingSubscriptions = 0

ReportedRemainderWitness ==
    \E b \in Slots : CleanDone(b) /\
        /\ Len(snapshot[b]) >= 2
        /\ PrunedBy(b) = 1
        /\ resp[b].remainingSubscriptions = Len(snapshot[b]) - 1

\* C10: a broadcast request that has ended answered 404 if the registry
\* was empty when it was handled, and 200 otherwise, whatever its delivery
\* attempts produced.
BroadcastAnswer ==
    \A b \in Slots : pc[b] \in {"done", "threw"} =>
        resp[b].code = IF snapshot[b] = <<>> THEN 404 ELSE 200

\* C11: no broadcast ends in an uncaught error; one that has ended has
\* answered 200 or 404, whatever was handled while it was suspended.
DispatcherNeverFails ==
    \A b \in Slots :
        /\ pc[b] # "threw"
        /\ pc[b] = "done" => resp[b].code \in {200, 404}

\* C12: no two records of the registry have the same endpoint.
OneRecordPerEndpoint ==
    \A i, j \in 1..Len(subscriptions) :
        i # j => subscriptions[i].endpoint # subscriptions[j].endpoint

\* C12 as amended: two records of the registry with the same endpoint
\* differ in their key material or in the order of their properties.
OneRecordPerSerialization ==
    \A i, j \in 1..Len(subscriptions) :
        (i # j /\ subscriptions[i].endpoint = subscriptions[j].endpoint) =>
            \/ subscriptions[i].keys # subscriptions[j].keys
            \/ subscriptions[i].layout # subscriptions[j].layout

\* Two records of one endpoint are stored, and one of them was just
\* subscribed again and refused.
OneRecordPerSerializationWitness ==
    /\ Len(subscriptions) >= 2
    /\ subscriptions[1].endpoint = subscriptions[2].endpoint
    /\ subResp.code = 200
    /\ subResp.rec = subscriptions[2]

\* C13: no request is handled between a broadcast's read of the registry
\* and its prune: every broadcast runs with no other request inside it,
\* and inside no other broadcast.
NoCrossRequestRace ==
    \A b \in Slots : pc[b] # "idle" => clean[b]

\* C14: whenever a record disappears from the registry, a delivery
\* attempt to that record has ended in failure before or in that step.
RemovedOnlyAfterOwnFailure ==
    [][\A r \in Records :
          (InRegistry(r, subscriptions) /\ ~InRegistry(r, subscriptions'))
              => r \in failedTo']_vars

IsStrictPrefix(s, t) ==
    Len(s) < Len(t) /\ \A i \in 1..Len(s) : s[i] = t[i]

\* C15: when the deliveries of a broadcast have all settled and subscribes
\* have added records behind its snapshot in the meantime, the added
\* records are in the registry and the snapshot records whose attempt
\* failed with 410 or 404 are not.
NoLostUpdate ==
    [][\A b \in Slots :
          (/\ pc[b] = "waiting"
           /\ pc'[b] \in {"done", "threw"}
           /\ IsStrictPrefix(snapshot[b], subscriptions)) =>
              /\ \A j \in Len(snapshot[b]) + 1..Len(subscriptions) :
                    InRegistry(subscriptions[j], subscriptions')
              /\ \A i \in 1..Len(snapshot[b]) :
                    Prunable(results'[b][i])
                        => ~InRegistry(snapshot[b][i], subscriptions')]_vars

\* C16: the registry loses records only in the step in which a broadcast
\* resumes with none of its attempts pending, and a step that settles an
\* attempt while another attempt of the broadcast stays pending leaves the
\* registry as it is.
SinglePrunePass ==
    [][/\ (subscriptions' # subscriptions /\ Len(subscriptions') <= Len(subscriptions)) =>
             \E b \in Slots :
                 /\ pc[b] = "waiting" /\ pc'[b] = "done"
                 /\ \A i \in 1..Len(results'[b]) : results'[b][i].state # "pending"
       /\ \A b \in Slots :
             (/\ results'[b] # results[b]
              /\ \E i \in 1..Len(results'[b]) : results'[b][i].state = "pending")
                 => subscriptions' = subscriptions]_vars

\* An attempt has failed with 410, another one of the same broadcast is
\* pending, and the record of the failed one is still stored.
SinglePrunePassWitness ==
    \E b \in Slots : \E i, j \in 1..Len(results[b]) :
        /\ pc[b] = "waiting"
        /\ results[b][i].error = 410
        /\ results[b][j].state = "pending"
        /\ InRegistry(sent[b][i], subscriptions)

\* s is t with some elements left out, the others in the order of t.
RECURSIVE IsSubsequence(_, _)
IsSubsequence(s, t) ==
    IF s = <<>> THEN TRUE
    ELSE IF t = <<>> THEN FALSE
    ELSE IF Head(s) = Head(t) THEN IsSubsequence(Tail(s), Tail(t))
    ELSE IsSubsequence(s, Tail(t))

\* A step that changes the registry is a subscribe answered 201 that
\* appends its record, or the end of a broadcast that leaves out records
\* and keeps the others in order; a subscribe answered 200 changes nothing.
RegistryStep ==
    /\ subscriptions' # subscriptions =>
          \/ /\ subResp'.code = 201
             /\ subscriptions' = Append(subscriptions, subResp'.rec)
          \/ /\ \E b \in Slots : pc[b] = "waiting" /\ pc'[b] = "done"
             /\ Len(subscriptions') < Len(subscriptions)
             /\ IsSubsequence(subscriptions', subscriptions)
    /\ subResp'.code = 200 => subscriptions' = subscriptions

\* C17: the registry is empty at the start; a step that changes it is a
\* subscribe answered 201 that appends its record, or the end of a
\* broadcast that leaves out records and keeps the others in order; a
\* subscribe answered 200 leaves it unchanged.
RegistryFrame ==
    /\ subscriptions = <<>>
    /\ [][RegistryStep]_vars

\* A broadcast over two records has removed the first and kept the second.
RegistryFrameWitness ==
    \E b \in Slots :
        /\ pc[b] = "done" /\ Len(snapshot[b]) = 2
        /\ results[b][1].status = "failed"
        /\ subscriptions = <<snapshot[b][2]>>

KeyRotation(r, s) == r.endpoint = s.endpoint /\ r.keys # s.keys

SameContent(r, s) == r.endpoint = s.endpoint /\ r.keys = s.keys

\* C18: a subscribe of a record with the endpoint of a stored record and
\* other key material, its content not stored, is answered 201 and
\* appended; and when one of two stored records of one endpoint with
\* different key material disappears, it is in the step that ends a
\* broadcast in which a delivery attempt to that record failed.
KeyRotationCoexists ==
    [][/\ (/\ subResp' # NoSubResp
           /\ \E j \in 1..Len(subscriptions) : KeyRotation(subResp'.rec, subscriptions[j])
           /\ \A j \in 1..Len(subscriptions) : ~SameContent(subResp'.rec, subscriptions[j]))
             => /\ subResp'.code = 201
                /\ subscriptions' = Append(subscriptions, subResp'.rec)
       /\ \A r, s \in Records :
             (/\ KeyRotation(r, s)
              /\ InRegistry(r, subscriptions) /\ InRegistry(s, subscriptions)
              /\ ~InRegistry(r, subscriptions'))
                 => \E b \in Slots :
                        /\ pc[b] = "waiting" /\ pc'[b] = "done"
                        /\ \E i \in 1..Len(sent[b]) :
                              sent[b][i] = r /\ results'[b][i].status = "failed"]_vars

\* C19: a subscribe of a record whose endpoint and key material are those
\* of a stored record is answered 200 and leaves the registry unchanged,
\* whatever the order of its properties.
DuplicateByContent ==
    [][(/\ subResp' # NoSubResp
        /\ \E j \in 1..Len(subscriptions) : SameContent(subResp'.rec, subscriptions[j]))
          => /\ subResp'.code = 200
             /\ subscriptions' = subscriptions]_vars

====
